---------------------------- MODULE Spec2Model ----------------------------
(***************************************************************************)
(* Model of the two AVR firmware programs of the repository:               *)
(*   - uart_with_ring_buffer.X/main.c : interrupt-fed receive ring + echo  *)
(*   - uart_command_logger.X/main.c   : the same ring, a priority-ordered  *)
(*     delayed task list, its EEPROM save/load and the tick-driven loop.   *)
(* Bytes and chars are modelled by their 8-bit pattern 0..255, so the      *)
(* char value -1 is 255.                                                   *)
(***************************************************************************)
EXTENDS Integers, Sequences, FiniteSets, TLC

VARIABLES
    \* ---- receive ring (both programs) ----
    rx_buffer,      \* volatile char rx_buffer[BUFFER_SIZE]
    head,           \* volatile uint8_t head
    tail,           \* volatile uint8_t tail
    ret,            \* value returned by the last buffer_read / uart_read
    tx,             \* what the last operation handed to uart_send / uart_send_str
    \* ---- history of the ring (not program state) ----
    op,             \* name of the last operation performed
    pushed,         \* every byte the RX interrupt received, in arrival order
    popped,         \* every byte returned by a pop of a non-empty ring
    nDropped,       \* number of received bytes the interrupt dropped
    \* ---- task list and EEPROM (uart_command_logger) ----
    log_head,       \* TaskNode* log_head
    heap,           \* the allocated TaskNodes, by address
    ee_address,     \* uint16_t ee_address
    eeprom,         \* EEPROM contents, one TaskNode image per record address
    \* ---- history of the task list (not program state) ----
    meta,           \* per allocated node: serial number, initial delay, ticks seen
    nextUid,        \* serial number of the next node allocated
    lastExec,       \* the nodes the last execute_tasks call executed, in order
    execLog,        \* serial numbers of all nodes executed so far
    saved,          \* the last save: start address and the triples written
    allocFailed,    \* whether a malloc of the last operation returned NULL
    cnt,            \* how many times each operation ran
    \* ---- main loop and timer (uart_command_logger) ----
    pc,             \* the line of main() (or of buffer_read) the loop is at
    tick,           \* volatile uint8_t tick
    c,              \* char c of main()
    cmd_buf,        \* char cmd_buf[MAX_CMD_LEN], its first idx characters
    idx,            \* uint8_t idx
    led,            \* bit PB0 of PORTB
    \* ---- environment and history of the main loop (not program state) ----
    wire,           \* the rest of the command line being received
    nLines,         \* command lines sent so far
    nInts,          \* timer interrupts so far
    nClears,        \* times the loop cleared the tick flag
    sinceObs,       \* timer interrupts since the loop last tested the flag
    sinceClear      \* timer interrupts since the loop last cleared the flag

ringVars == <<rx_buffer, head, tail, ret, pushed, popped, nDropped>>

queueVars == <<log_head, heap, ee_address, eeprom, meta, nextUid, lastExec,
               execLog, saved, allocFailed, cnt>>

sysVars == <<pc, tick, c, cmd_buf, idx, led, wire, nLines, nInts, nClears,
             sinceObs, sinceClear>>

vars == <<rx_buffer, head, tail, ret, tx, op, pushed, popped, nDropped,
          log_head, heap, ee_address, eeprom, meta, nextUid, lastExec,
          execLog, saved, allocFailed, cnt,
          pc, tick, c, cmd_buf, idx, led, wire, nLines, nInts, nClears,
          sinceObs, sinceClear>>

-----------------------------------------------------------------------------
(* Program constants *)

BUFFER_SIZE == 64

MAX_CMD_LEN == 32

MAX_LOGS == 10

TICK_MS == 10

NULL == 0

\* char buf[50] of print_log
PRINT_BUF == 50

\* sizeof(TaskNode) on the 8-bit AVR: char[32] + uint16_t + uint8_t + 2-byte pointer
SizeofTaskNode == 37

(* Bounds of the model *)

\* total number of bytes the RX interrupt receives in one behaviour
MaxPush == 66
\* number of leading received bytes whose value is chosen freely
MaxFreeBytes == 1
\* heap capacity in TaskNodes
MaxNodes == 12
\* number of TaskNode records the EEPROM holds
MaxEeRecords == 20
\* how many times each task-list operation runs in one behaviour of SpecQueue
MaxAdds == 4
MaxTicks == 4
\* number of task-list operations in one behaviour of SpecStore
MaxStoreOps == 5
\* command lines received and timer interrupts taken in one behaviour of SpecSys
MaxLines == 1
MaxTimerInts == 2

-----------------------------------------------------------------------------
(* Helpers *)

Byte == 0 .. 255

\* a C integer converted to char, as its 8-bit pattern
ToChar(n) == n % 256

Min(a, b) == IF a < b THEN a ELSE b

\* the value on the wire for the n-th received byte (n counted from 0): the
\* first MaxFreeBytes bytes are arbitrary picks, the rest a counting pattern
RxData(n) == IF n < MaxFreeBytes THEN {n % 256, 255} ELSE {n % 256}

-----------------------------------------------------------------------------
(* Receive ring *)

buffer_is_empty == head = tail

\* variant: the wrap-around of head + 1 is forgotten
buffer_is_full_NoWrap == (head + 1) = tail

buffer_is_full == ((head + 1) % BUFFER_SIZE) = tail

\* variant: the full test is missing, the oldest unread byte is overwritten
RxStore_Overwrite(data) ==
    /\ rx_buffer' = [rx_buffer EXCEPT ![head] = data]
    /\ head' = (head + 1) % BUFFER_SIZE
    /\ nDropped' = nDropped

\* ISR(USART_RX_vect): store the received byte unless the ring is full
RxStore(data) ==
    LET next == (head + 1) % BUFFER_SIZE
    IN  IF next # tail
        THEN /\ rx_buffer' = [rx_buffer EXCEPT ![head] = data]
             /\ head' = next
             /\ nDropped' = nDropped
        ELSE /\ UNCHANGED <<rx_buffer, head>>
             /\ nDropped' = nDropped + 1

\* variant: tail is advanced before the slot is read
ReadResult_AdvanceFirst ==
    IF buffer_is_empty
    THEN [c |-> ToChar(-1), tail |-> tail]
    ELSE [c |-> rx_buffer[(tail + 1) % BUFFER_SIZE], tail |-> (tail + 1) % BUFFER_SIZE]

\* char buffer_read() / char uart_read(): the value returned and the new tail
ReadResult ==
    IF buffer_is_empty
    THEN [c |-> ToChar(-1), tail |-> tail]
    ELSE [c |-> rx_buffer[tail], tail |-> (tail + 1) % BUFFER_SIZE]

\* the RX interrupt with UDR0 = data; it runs to completion
USART_RX_vect(data) ==
    /\ RxStore(data)
    /\ pushed' = Append(pushed, data)
    /\ op' = "push"
    /\ UNCHANGED <<tail, ret, tx, popped>>
    /\ UNCHANGED queueVars

\* a byte arrives
Push ==
    /\ Len(pushed) < MaxPush
    /\ \E data \in RxData(Len(pushed)) : USART_RX_vect(data)
    /\ UNCHANGED sysVars

buffer_read ==
    /\ ret' = ReadResult.c
    /\ tail' = ReadResult.tail
    /\ popped' = IF buffer_is_empty THEN popped ELSE Append(popped, ReadResult.c)
    /\ op' = "pop"
    /\ UNCHANGED <<rx_buffer, head, tx, pushed, nDropped>>
    /\ UNCHANGED queueVars
    /\ UNCHANGED sysVars

\* void uart_echo(): pop and transmit one byte when the ring is not empty
uart_echo ==
    /\ IF ~buffer_is_empty
       THEN /\ ret' = ReadResult.c
            /\ tail' = ReadResult.tail
            /\ popped' = Append(popped, ReadResult.c)
            /\ tx' = <<[kind |-> "char", c |-> ReadResult.c]>>
       ELSE UNCHANGED <<ret, tail, popped, tx>>
    /\ op' = "echo"
    /\ UNCHANGED <<rx_buffer, head, pushed, nDropped>>
    /\ UNCHANGED queueVars
    /\ UNCHANGED sysVars

-----------------------------------------------------------------------------
(* Task list: struct TaskNode, log_head, malloc/free *)

\* the arguments add_log is called with: msg (a string of character codes),
\* delay_ms, priority: "LOG A", "DELAY 25 B", and an urgent "A" one tick away
AddArgs == {<<(<<65>>), 0, 5>>, <<(<<66>>), 25, 5>>, <<(<<65>>), 10, 1>>}

\* heap addresses; malloc returns NULL when none is free
Addrs == 1 .. MaxNodes

\* the record addresses of the EEPROM that the model keeps
EeAddrs == {k * SizeofTaskNode : k \in 0 .. MaxEeRecords - 1}

\* an erased EEPROM record: every byte 0xFF
ErasedNode ==
    [data |-> [i \in 1 .. MAX_CMD_LEN |-> 255], delay_ticks |-> 65535,
     priority |-> 255, next |-> 65535]

\* strncpy(dst, msg, n) followed by dst[n] = '\0': the string dst then holds
Strncpy(msg, n) == SubSeq(msg, 1, Min(Len(msg), n))

\* variant: an exhausted heap hands out a cell that is in use
Malloc_Reuse(h) ==
    IF Addrs \ DOMAIN h = {}
    THEN 1
    ELSE CHOOSE a \in Addrs \ DOMAIN h : \A b \in Addrs \ DOMAIN h : a <= b

\* malloc(sizeof(TaskNode)) on heap h: the lowest free address, NULL when exhausted
Malloc(h) ==
    IF Addrs \ DOMAIN h = {}
    THEN NULL
    ELSE CHOOSE a \in Addrs \ DOMAIN h : \A b \in Addrs \ DOMAIN h : a <= b

\* variant: free does not release the cell
Free_Keep(h, a) == h

\* free(a)
Free(h, a) == [x \in DOMAIN h \ {a} |-> h[x]]

\* heap h with a new cell a holding n
Store(h, a, n) == [x \in DOMAIN h \cup {a} |-> IF x = a THEN n ELSE h[x]]

\* the node add_log fills in (lines 75-79)
NewNode(msg, delay_ms, priority) ==
    [data |-> Strncpy(msg, MAX_CMD_LEN - 1),
     delay_ticks |-> (delay_ms \div TICK_MS) % 65536,
     priority |-> priority,
     next |-> NULL]

\* variant: <= in place of <, a new entry overtakes its equals at the front
InsertAtFront_Le(h, lh, priority) == lh = NULL \/ priority <= h[lh].priority

\* line 81: the new node goes in front of the list
InsertAtFront(h, lh, priority) == lh = NULL \/ priority < h[lh].priority

\* line 88: the walk moves on from temp
WalkOn(h, temp, priority) ==
    h[temp].next # NULL /\ h[h[temp].next].priority <= priority

RECURSIVE Walk(_, _, _)
\* lines 87-89: the node after which the new node is linked
Walk(h, temp, priority) ==
    IF WalkOn(h, temp, priority) THEN Walk(h, h[temp].next, priority) ELSE temp

\* add_log once malloc returned a: the new heap and log_head
AddLog(h, lh, a, msg, delay_ms, priority) ==
    LET n == NewNode(msg, delay_ms, priority)
    IN  IF InsertAtFront(h, lh, priority)
        THEN [heap |-> Store(h, a, [n EXCEPT !.next = lh]), log_head |-> a]
        ELSE LET temp == Walk(h, lh, priority)
                 h1 == Store(h, a, [n EXCEPT !.next = h[temp].next])
             IN  [heap |-> [h1 EXCEPT ![temp].next = a], log_head |-> lh]

\* variant: an entry with one tick left is run at once
NotDue_OneEarly(n) == n.delay_ticks > 1

\* line 137: the entry is not due yet
NotDue(n) == n.delay_ticks > 0

\* variant: unlinking behind prev cuts the list off after prev
Unlink_CutTail(h, lh, temp, prev) ==
    IF prev = NULL
    THEN LET h1 == Free(h, temp)
         IN  [heap |-> h1, log_head |-> h[temp].next, temp |-> h[temp].next]
    ELSE LET h1 == Free([h EXCEPT ![prev].next = NULL], temp)
         IN  [heap |-> h1, log_head |-> lh, temp |-> h1[prev].next]

\* lines 144-153: unlink and free temp; the new heap, log_head and temp
Unlink(h, lh, temp, prev) ==
    IF prev = NULL
    THEN LET h1 == Free(h, temp)
         IN  [heap |-> h1, log_head |-> h[temp].next, temp |-> h[temp].next]
    ELSE LET h1 == Free([h EXCEPT ![prev].next = h[temp].next], temp)
         IN  [heap |-> h1, log_head |-> lh, temp |-> h1[prev].next]

\* the bytes of a TaskNode that follow its data array, up to the link:
\* delay_ticks, low byte first, and priority (lines 63-64)
FieldBytes(n) == <<n.delay_ticks % 256, n.delay_ticks \div 256, n.priority>>

RECURSIVE UpToZero(_)
\* the bytes of s before its first zero byte
UpToZero(s) ==
    IF s = <<>> \/ Head(s) = 0 THEN <<>> ELSE <<Head(s)>> \o UpToZero(Tail(s))

\* the characters uart_send_str and "%s" find at n->data: those of the array
\* up to its terminator and, when the array holds none, the bytes that
\* follow it in the node, up to the first zero
CString(n) ==
    IF Len(n.data) < MAX_CMD_LEN
    THEN n.data
    ELSE n.data \o UpToZero(FieldBytes(n))

\* no zero byte up to the link: the string goes on with the bytes of a link
\* that is not NULL and of the memory behind the node
RunsBeyond(n) ==
    /\ Len(n.data) >= MAX_CMD_LEN
    /\ Len(UpToZero(FieldBytes(n))) = Len(FieldBytes(n))
    /\ n.next # NULL

\* variant: the notifications come out last first
Emit_Reversed(out, h, temp) == <<[addr |-> temp, data |-> CString(h[temp])]>> \o out

\* lines 140-142: the notification of the due node temp, added to those sent so far
Emit(out, h, temp) == Append(out, [addr |-> temp, data |-> CString(h[temp])])

\* lines 136-158: the while loop of execute_tasks, from the state st of its
\* variables (the heap, log_head, temp, prev) and of the notifications sent
ExecLoopFrom[st \in Any] ==
    IF st.temp = NULL
    THEN [heap |-> st.heap, log_head |-> st.log_head, out |-> st.out]
    ELSE IF NotDue(st.heap[st.temp])
         THEN ExecLoopFrom[[heap |-> [st.heap EXCEPT ![st.temp].delay_ticks = @ - 1],
                            log_head |-> st.log_head,
                            temp |-> st.heap[st.temp].next,
                            prev |-> st.temp,
                            out |-> st.out]]
         ELSE LET u == Unlink(st.heap, st.log_head, st.temp, st.prev)
              IN  ExecLoopFrom[[heap |-> u.heap,
                                log_head |-> u.log_head,
                                temp |-> u.temp,
                                prev |-> st.prev,
                                out |-> Emit(st.out, st.heap, st.temp)]]

\* the loop entered with these values of the variables; out lists the executed nodes
ExecLoop(h, lh, temp, prev, out) ==
    ExecLoopFrom[[heap |-> h, log_head |-> lh, temp |-> temp, prev |-> prev,
                  out |-> out]]

RECURSIVE ChainFrom(_, _, _)
\* the addresses reached from a by following next, at most fuel of them
ChainFrom(h, a, fuel) ==
    IF a = NULL \/ fuel = 0 \/ a \notin DOMAIN h
    THEN <<>>
    ELSE <<a>> \o ChainFrom(h, h[a].next, fuel - 1)

\* the list front to back, as print_log and save_logs_to_eeprom walk it
Chain == ChainFrom(heap, log_head, Cardinality(DOMAIN heap))

Bump(counts, name) == [counts EXCEPT ![name] = @ + 1]

add_log(msg, delay_ms, priority) ==
    LET a == Malloc(heap)
    IN  /\ IF a = NULL
           THEN /\ UNCHANGED <<heap, log_head, meta, nextUid>>
                /\ allocFailed' = TRUE
           ELSE LET r == AddLog(heap, log_head, a, msg, delay_ms, priority)
                IN  /\ heap' = r.heap
                    /\ log_head' = r.log_head
                    /\ meta' = Store(meta, a, [uid |-> nextUid,
                                               d0 |-> r.heap[a].delay_ticks,
                                               age |-> 0])
                    /\ nextUid' = nextUid + 1
                    /\ allocFailed' = FALSE
        /\ UNCHANGED <<ee_address, eeprom, lastExec, execLog, saved>>

\* the number of characters "%d" prints for n >= 0
NumLen(n) ==
    IF n < 10 THEN 1
    ELSE IF n < 100 THEN 2
    ELSE IF n < 1000 THEN 3
    ELSE IF n < 10000 THEN 4
    ELSE 5

\* line 100: snprintf(buf, sizeof(buf), "%d: [%d] %s\n", count, priority, data)
\* for node n: at most sizeof(buf) - 1 characters. data is the part of the
\* string that fits, nl whether the "\n" still fits behind it, beyond whether
\* the string goes on behind the bytes given here (RunsBeyond)
PrintLine(count, n) ==
    LET room == (PRINT_BUF - 1) - (NumLen(count) + 3 + NumLen(n.priority) + 2)
        str == CString(n)
    IN  [kind |-> "list", count |-> count, priority |-> n.priority,
         data |-> SubSeq(str, 1, Min(Len(str), room)),
         nl |-> Len(str) < room,
         beyond |-> RunsBeyond(n)]

\* lines 96-103: the lines print_log sends, front to back, count from 1
PrintLogOut ==
    [i \in 1 .. Len(Chain) |-> PrintLine(i, heap[Chain[i]])]

print_log ==
    UNCHANGED <<log_head, heap, ee_address, eeprom, meta, nextUid,
                lastExec, execLog, saved, allocFailed>>

Text(s) == <<[kind |-> "text", text |-> s]>>

\* the (payload, priority, delay_ticks) triple of a node
Triple(n) == [data |-> n.data, priority |-> n.priority, delay_ticks |-> n.delay_ticks]

\* lines 109-114: the EEPROM after writing the list from address a0
SaveWrite(e, a0) ==
    [x \in DOMAIN e |->
        IF \E i \in 1 .. Len(Chain) : x = (a0 + (i - 1) * SizeofTaskNode) % 65536
        THEN heap[Chain[CHOOSE i \in 1 .. Len(Chain) :
                            x = (a0 + (i - 1) * SizeofTaskNode) % 65536]]
        ELSE e[x]]

save_logs_to_eeprom ==
    /\ ee_address + Len(Chain) * SizeofTaskNode <= MaxEeRecords * SizeofTaskNode
    /\ eeprom' = SaveWrite(eeprom, ee_address)
    /\ ee_address' = (ee_address + Len(Chain) * SizeofTaskNode) % 65536
    /\ saved' = [at |-> ee_address,
                 q |-> [i \in 1 .. Len(Chain) |-> Triple(heap[Chain[i]])]]
    /\ UNCHANGED <<log_head, heap, meta, nextUid, lastExec, execLog, allocFailed>>

\* variant: the link to the old head is forgotten, next is what the record held
LoadNode_NoLink(rec, lh) == rec

\* lines 123, 125: the node read from the record rec and linked before lh
LoadNode(rec, lh) == [rec EXCEPT !.next = lh]

\* lines 120-127: the for loop of load_logs_from_eeprom, from the state st of
\* its variables (the heap, log_head, ee_address, i) on, reading EEPROM e
LoadLoopFrom[st \in Any] ==
    IF st.i >= MAX_LOGS
    THEN [heap |-> st.heap, log_head |-> st.log_head,
          ee_address |-> st.ee_address, failed |-> FALSE]
    ELSE LET a == Malloc(st.heap)
         IN  IF a = NULL
             THEN [heap |-> st.heap, log_head |-> st.log_head,
                   ee_address |-> st.ee_address, failed |-> TRUE]
             ELSE LoadLoopFrom[
                     [heap |-> Store(st.heap, a,
                                     LoadNode(st.e[st.ee_address], st.log_head)),
                      log_head |-> a,
                      ee_address |-> (st.ee_address + SizeofTaskNode) % 65536,
                      e |-> st.e,
                      i |-> st.i + 1]]

\* the loop entered with these values of the variables
LoadLoop(h, lh, ea, e, i) ==
    LoadLoopFrom[[heap |-> h, log_head |-> lh, ee_address |-> ea, e |-> e, i |-> i]]

load_logs_from_eeprom ==
    LET r == LoadLoop(heap, log_head, 0, eeprom, 0)
        new == DOMAIN r.heap \ DOMAIN heap
        \* serial numbers in allocation order: the k-th node read gets nextUid + k
        rank(a) == Cardinality({b \in new : b < a})
    IN  /\ heap' = r.heap
        /\ log_head' = r.log_head
        /\ ee_address' = r.ee_address
        /\ allocFailed' = r.failed
        /\ meta' = [a \in DOMAIN r.heap |->
                       IF a \in new
                       THEN [uid |-> nextUid + rank(a),
                             d0 |-> r.heap[a].delay_ticks, age |-> 0]
                       ELSE meta[a]]
        /\ nextUid' = nextUid + Cardinality(new)
        /\ UNCHANGED <<eeprom, lastExec, execLog, saved>>

\* lines 140-142 of every node executed: "Task: <data>\n" each
ExecOut ==
    LET out == ExecLoop(heap, log_head, log_head, NULL, <<>>).out
    IN  [i \in 1 .. Len(out) |-> [kind |-> "task", data |-> out[i].data]]

execute_tasks ==
    LET r == ExecLoop(heap, log_head, log_head, NULL, <<>>)
        ex == [i \in 1 .. Len(r.out) |->
                 [uid |-> meta[r.out[i].addr].uid,
                  d0 |-> meta[r.out[i].addr].d0,
                  age |-> meta[r.out[i].addr].age + 1,
                  data |-> r.out[i].data]]
    IN  /\ heap' = r.heap
        /\ log_head' = r.log_head
        /\ lastExec' = ex
        /\ execLog' = execLog \o [i \in 1 .. Len(ex) |-> ex[i].uid]
        /\ meta' = [a \in DOMAIN r.heap |-> [meta[a] EXCEPT !.age = @ + 1]]
        /\ UNCHANGED <<ee_address, eeprom, nextUid, saved, allocFailed>>

\* power-on reset: the variables get their initial values again (lines 21-22,
\* 70, 107, 162, 174-175) and main starts over; the EEPROM persists
PowerOn ==
    /\ rx_buffer' = [i \in 0 .. BUFFER_SIZE - 1 |-> 0]
    /\ head' = 0
    /\ tail' = 0
    /\ log_head' = NULL
    /\ heap' = <<>>
    /\ ee_address' = 0
    /\ tick' = 0
    /\ cmd_buf' = <<>>
    /\ idx' = 0
    /\ led' = 0
    /\ pc' = "L213"
    /\ meta' = <<>>
    /\ UNCHANGED <<eeprom, nextUid, lastExec, execLog, saved, allocFailed>>

(* The task-list operations called one at a time, as the main loop calls them *)

Add ==
    /\ \E args \in AddArgs : add_log(args[1], args[2], args[3])
    /\ tx' = <<>>
    /\ op' = "add"
    /\ cnt' = Bump(cnt, "add")
    /\ UNCHANGED ringVars
    /\ UNCHANGED sysVars

Tick ==
    /\ execute_tasks
    /\ tx' = ExecOut
    /\ op' = "tick"
    /\ cnt' = Bump(cnt, "tick")
    /\ UNCHANGED ringVars
    /\ UNCHANGED sysVars

List ==
    /\ print_log
    /\ tx' = PrintLogOut
    /\ op' = "list"
    /\ cnt' = cnt
    /\ UNCHANGED ringVars
    /\ UNCHANGED sysVars

Save ==
    /\ save_logs_to_eeprom
    /\ tx' = Text("Logs saved to EEPROM.\n")
    /\ op' = "save"
    /\ cnt' = Bump(cnt, "save")
    /\ UNCHANGED ringVars
    /\ UNCHANGED sysVars

Load ==
    /\ load_logs_from_eeprom
    /\ tx' = Text("Logs loaded from EEPROM.\n")
    /\ op' = "load"
    /\ cnt' = Bump(cnt, "load")
    /\ UNCHANGED ringVars
    /\ UNCHANGED sysVars

Reset ==
    /\ PowerOn
    /\ tx' = Text("System Ready\n")
    /\ op' = "reset"
    /\ cnt' = Bump(cnt, "reset")
    /\ UNCHANGED <<ret, pushed, popped, nDropped>>
    /\ UNCHANGED <<c, wire, nLines, nInts, nClears, sinceObs, sinceClear>>

-----------------------------------------------------------------------------
(* Command parser and main loop of uart_command_logger *)

\* the string literals of parse_command, as character codes
STR_LED_ON == <<76, 69, 68, 32, 79, 78>>

STR_LED_OFF == <<76, 69, 68, 32, 79, 70, 70>>

STR_LOG == <<76, 79, 71, 32>>

STR_DELAY == <<68, 69, 76, 65, 89, 32>>

STR_LIST == <<76, 73, 83, 84>>

STR_SAVE == <<83, 65, 86, 69>>

STR_LOAD == <<76, 79, 65, 68>>

\* the command lines sent to the device: "LOG A\n", "DELAY 25 B\n", "SAVE\n"
SysLines ==
    {<<76, 79, 71, 32, 65, 10>>,
     <<68, 69, 76, 65, 89, 32, 50, 53, 32, 66, 10>>,
     <<83, 65, 86, 69, 10>>}

\* strncmp(cmd, lit, strlen(lit)) == 0
HasPrefix(cmd, lit) == Len(cmd) >= Len(lit) /\ SubSeq(cmd, 1, Len(lit)) = lit

\* the branch parse_command takes (lines 178-201)
Command(cmd) ==
    IF HasPrefix(cmd, STR_LED_ON) THEN "LED ON"
    ELSE IF HasPrefix(cmd, STR_LED_OFF) THEN "LED OFF"
    ELSE IF HasPrefix(cmd, STR_LOG) THEN "LOG"
    ELSE IF HasPrefix(cmd, STR_DELAY) THEN "DELAY"
    ELSE IF HasPrefix(cmd, STR_LIST) THEN "LIST"
    ELSE IF HasPrefix(cmd, STR_SAVE) THEN "SAVE"
    ELSE IF HasPrefix(cmd, STR_LOAD) THEN "LOAD"
    ELSE "unknown"

IsSpace(ch) == ch \in {32, 9, 10, 13}

IsDigit(ch) == ch \in 48 .. 57

RECURSIVE SkipSpaces(_)
SkipSpaces(s) == IF s # <<>> /\ IsSpace(Head(s)) THEN SkipSpaces(Tail(s)) ELSE s

RECURSIVE ScanDigits(_, _)
\* the decimal number at the front of s, and what follows it
ScanDigits(s, acc) ==
    IF s # <<>> /\ IsDigit(Head(s))
    THEN ScanDigits(Tail(s), acc * 10 + (Head(s) - 48))
    ELSE [value |-> acc, rest |-> s]

\* what the uninitialised char msg[20] / int delay of parse_command may hold
StackStrings == {<<>>, <<63>>}

StackInts == {0, 25}

\* line 190: sscanf(arg, "%d %[^]", &delay, msg). The scan set of the format
\* is never closed, so what is stored in msg is not defined: the rest of the
\* line, or nothing (msg keeps what the stack held). Without a number neither
\* delay nor msg is assigned.
Sscanf(arg) ==
    LET s == SkipSpaces(arg)
        d == ScanDigits(s, 0)
    IN  IF s # <<>> /\ IsDigit(Head(s))
        THEN {[delay |-> d.value, msg |-> m] :
                 m \in {SkipSpaces(d.rest)} \cup StackStrings}
        ELSE {[delay |-> v, msg |-> m] : v \in StackInts, m \in StackStrings}

\* what parse_command sends
ParseOut(cmd) ==
    LET k == Command(cmd)
    IN  CASE k = "LED ON" -> Text("LED ON\n")
          [] k = "LED OFF" -> Text("LED OFF\n")
          [] k = "LOG" -> Text("Log added\n")
          [] k = "DELAY" -> Text("Delayed task added\n")
          [] k = "LIST" -> PrintLogOut
          [] k = "SAVE" -> Text("Logs saved to EEPROM.\n")
          [] k = "LOAD" -> Text("Logs loaded from EEPROM.\n")
          [] OTHER -> Text("Unknown command\n")

queueProgVars == <<log_head, heap, ee_address, eeprom, meta, nextUid, lastExec,
                   execLog, saved, allocFailed>>

\* void parse_command(const char* cmd)
parse_command(cmd) ==
    LET k == Command(cmd)
    IN  /\ led' = (IF k = "LED ON" THEN 1 ELSE IF k = "LED OFF" THEN 0 ELSE led)
        /\ CASE k = "LOG" ->
                  /\ add_log(SubSeq(cmd, 5, Len(cmd)), 0, 5)
                  /\ cnt' = Bump(cnt, "add")
                  /\ op' = "add"
             [] k = "DELAY" ->
                  /\ \E o \in Sscanf(SubSeq(cmd, 7, Len(cmd))) :
                        add_log(o.msg, o.delay % 65536, 5)
                  /\ cnt' = Bump(cnt, "add")
                  /\ op' = "add"
             [] k = "LIST" ->
                  /\ print_log
                  /\ cnt' = cnt
                  /\ op' = "list"
             [] k = "SAVE" ->
                  /\ save_logs_to_eeprom
                  /\ cnt' = Bump(cnt, "save")
                  /\ op' = "save"
             [] k = "LOAD" ->
                  /\ load_logs_from_eeprom
                  /\ cnt' = Bump(cnt, "load")
                  /\ op' = "load"
             [] OTHER ->
                  /\ UNCHANGED queueProgVars
                  /\ cnt' = cnt
                  /\ op' = "other"

\* variant: the handler toggles the flag
TIMER1_COMPA_vect_Toggle == tick' = 1 - tick

\* variant: the handler leaves the flag alone
TIMER1_COMPA_vect_NoSet == tick' = tick

\* ISR(TIMER1_COMPA_vect)
TIMER1_COMPA_vect == tick' = 1

\* a timer interrupt
TimerInt ==
    /\ nInts < MaxTimerInts
    /\ TIMER1_COMPA_vect
    /\ nInts' = nInts + 1
    /\ sinceObs' = sinceObs + 1
    /\ sinceClear' = sinceClear + 1
    /\ UNCHANGED <<pc, c, cmd_buf, idx, led, wire, nLines, nClears>>
    /\ UNCHANGED <<tx, op>>
    /\ UNCHANGED ringVars
    /\ UNCHANGED queueVars

\* the next byte of a command line arrives, the lines being drawn from lines
RxLine(lines) ==
    /\ wire # <<>> \/ nLines < MaxLines
    /\ \E l \in (IF wire # <<>> THEN {wire} ELSE lines) :
          /\ USART_RX_vect(Head(l))
          /\ wire' = Tail(l)
    /\ nLines' = IF wire # <<>> THEN nLines ELSE nLines + 1
    /\ UNCHANGED <<pc, tick, c, cmd_buf, idx, led, nInts, nClears, sinceObs, sinceClear>>

RxInt == RxLine(SysLines)

\* main, line 213: if (!buffer_is_empty())
MainTestRing ==
    /\ pc = "L213"
    /\ pc' = IF ~buffer_is_empty THEN "L28" ELSE "L225"
    /\ UNCHANGED <<tick, c, cmd_buf, idx, led, wire, nLines, nInts, nClears,
                   sinceObs, sinceClear>>
    /\ UNCHANGED <<tx, op>>
    /\ UNCHANGED ringVars
    /\ UNCHANGED queueVars

\* buffer_read, line 28: if (buffer_is_empty()) return -1
ReadTest ==
    /\ pc = "L28"
    /\ IF buffer_is_empty
       THEN /\ c' = ToChar(-1)
            /\ ret' = ToChar(-1)
            /\ pc' = "L215"
       ELSE /\ UNCHANGED <<c, ret>>
            /\ pc' = "L29"
    /\ UNCHANGED <<tick, cmd_buf, idx, led, wire, nLines, nInts, nClears,
                   sinceObs, sinceClear>>
    /\ UNCHANGED <<tx, op, rx_buffer, head, tail, pushed, popped, nDropped>>
    /\ UNCHANGED queueVars

\* variant: the slot after tail is read
ReadSlot_Next ==
    /\ pc = "L29"
    /\ c' = rx_buffer[(tail + 1) % BUFFER_SIZE]
    /\ pc' = "L30"
    /\ UNCHANGED <<tick, cmd_buf, idx, led, wire, nLines, nInts, nClears,
                   sinceObs, sinceClear>>
    /\ UNCHANGED <<tx, op>>
    /\ UNCHANGED ringVars
    /\ UNCHANGED queueVars

\* buffer_read, line 29: char c = rx_buffer[tail]
ReadSlot ==
    /\ pc = "L29"
    /\ c' = rx_buffer[tail]
    /\ pc' = "L30"
    /\ UNCHANGED <<tick, cmd_buf, idx, led, wire, nLines, nInts, nClears,
                   sinceObs, sinceClear>>
    /\ UNCHANGED <<tx, op>>
    /\ UNCHANGED ringVars
    /\ UNCHANGED queueVars

\* buffer_read, lines 30-31: tail = (tail + 1) % BUFFER_SIZE; return c
ReadAdvance ==
    /\ pc = "L30"
    /\ tail' = (tail + 1) % BUFFER_SIZE
    /\ ret' = c
    /\ popped' = Append(popped, c)
    /\ op' = "pop"
    /\ pc' = "L215"
    /\ UNCHANGED <<tick, c, cmd_buf, idx, led, wire, nLines, nInts, nClears,
                   sinceObs, sinceClear>>
    /\ UNCHANGED <<tx, rx_buffer, head, pushed, nDropped>>
    /\ UNCHANGED queueVars

\* main, lines 215-222: echo c, then collect it or run the finished line
MainHandle ==
    /\ pc = "L215"
    /\ IF c = 10 \/ c = 13
       THEN /\ IF idx > 0
               THEN /\ parse_command(cmd_buf)
                    /\ tx' = <<[kind |-> "char", c |-> c]>> \o ParseOut(cmd_buf)
               ELSE /\ UNCHANGED queueVars
                    /\ UNCHANGED <<led, op>>
                    /\ tx' = <<[kind |-> "char", c |-> c]>>
            /\ idx' = 0
            /\ cmd_buf' = <<>>
       ELSE /\ IF idx < MAX_CMD_LEN - 1
               THEN /\ cmd_buf' = Append(cmd_buf, c)
                    /\ idx' = idx + 1
               ELSE UNCHANGED <<cmd_buf, idx>>
            /\ UNCHANGED queueVars
            /\ UNCHANGED <<led, op>>
            /\ tx' = <<[kind |-> "char", c |-> c]>>
    /\ pc' = "L225"
    /\ UNCHANGED <<tick, c, wire, nLines, nInts, nClears, sinceObs, sinceClear>>
    /\ UNCHANGED ringVars

\* variant: the flag is taken to be clear whatever it holds
MainTestTick_Blind ==
    /\ pc = "L225"
    /\ pc' = "L213"
    /\ sinceObs' = 0
    /\ UNCHANGED <<tick, c, cmd_buf, idx, led, wire, nLines, nInts, nClears, sinceClear>>
    /\ UNCHANGED <<tx, op>>
    /\ UNCHANGED ringVars
    /\ UNCHANGED queueVars

\* main, line 225: if (tick)
MainTestTick ==
    /\ pc = "L225"
    /\ pc' = IF tick # 0 THEN "L226" ELSE "L213"
    /\ sinceObs' = 0
    /\ UNCHANGED <<tick, c, cmd_buf, idx, led, wire, nLines, nInts, nClears, sinceClear>>
    /\ UNCHANGED <<tx, op>>
    /\ UNCHANGED ringVars
    /\ UNCHANGED queueVars

\* variant: the flag is not cleared
MainClearTick_NoClear ==
    /\ pc = "L226"
    /\ pc' = "L227"
    /\ nClears' = nClears + 1
    /\ sinceClear' = 0
    /\ UNCHANGED <<tick, c, cmd_buf, idx, led, wire, nLines, nInts, sinceObs>>
    /\ UNCHANGED <<tx, op>>
    /\ UNCHANGED ringVars
    /\ UNCHANGED queueVars

\* main, line 226: tick = 0
MainClearTick ==
    /\ pc = "L226"
    /\ tick' = 0
    /\ pc' = "L227"
    /\ nClears' = nClears + 1
    /\ sinceClear' = 0
    /\ UNCHANGED <<c, cmd_buf, idx, led, wire, nLines, nInts, sinceObs>>
    /\ UNCHANGED <<tx, op>>
    /\ UNCHANGED ringVars
    /\ UNCHANGED queueVars

\* main, line 227: execute_tasks()
MainExecute ==
    /\ pc = "L227"
    /\ execute_tasks
    /\ tx' = ExecOut
    /\ op' = "tick"
    /\ cnt' = Bump(cnt, "tick")
    /\ pc' = "L213"
    /\ UNCHANGED <<tick, c, cmd_buf, idx, led, wire, nLines, nInts, nClears,
                   sinceObs, sinceClear>>
    /\ UNCHANGED ringVars

QueueInit ==
    /\ log_head = NULL
    /\ heap = <<>>
    /\ ee_address = 0
    /\ eeprom = [x \in EeAddrs |-> ErasedNode]
    /\ meta = <<>>
    /\ nextUid = 1
    /\ lastExec = <<>>
    /\ execLog = <<>>
    /\ saved = [at |-> 0, q |-> <<>>]
    /\ allocFailed = FALSE
    /\ cnt = [add |-> 0, tick |-> 0, save |-> 0, load |-> 0, reset |-> 0]

RingInit ==
    /\ rx_buffer = [i \in 0 .. BUFFER_SIZE - 1 |-> 0]
    /\ head = 0
    /\ tail = 0
    /\ ret = 0
    /\ tx = <<>>
    /\ op = "init"
    /\ pushed = <<>>
    /\ popped = <<>>
    /\ nDropped = 0

-----------------------------------------------------------------------------
(* Specifications *)

SysInit ==
    /\ pc = "L213"
    /\ tick = 0
    /\ c = 0
    /\ cmd_buf = <<>>
    /\ idx = 0
    /\ led = 0
    /\ wire = <<>>
    /\ nLines = 0
    /\ nInts = 0
    /\ nClears = 0
    /\ sinceObs = 0
    /\ sinceClear = 0

Init == RingInit /\ QueueInit /\ SysInit

RingNext == Push \/ buffer_read \/ uart_echo

\* the receive ring under arbitrary sequences of pushes and pops
SpecRing == Init /\ [][RingNext]_vars

QueueNext ==
    \/ cnt.add < MaxAdds /\ Add
    \/ cnt.tick < MaxTicks /\ Tick
    \/ List

\* the task list under arbitrary sequences of insertions, ticks and listings
SpecQueue == Init /\ [][QueueNext]_vars

\* the number of operations performed so far
Ops == cnt.add + cnt.tick + cnt.save + cnt.load + cnt.reset

StoreNext ==
    /\ Ops < MaxStoreOps
    /\ \/ Add
       \/ Tick
       \/ Save
       \/ Load
       \/ Reset

\* the task list with its EEPROM image, across saves, loads and power cycles
SpecStore == Init /\ [][StoreNext]_vars

Main ==
    \/ MainTestRing
    \/ ReadTest
    \/ ReadSlot
    \/ ReadAdvance
    \/ MainHandle
    \/ MainTestTick
    \/ MainClearTick
    \/ MainExecute

SysNext == Main \/ RxInt \/ TimerInt

\* uart_command_logger: the main loop with both interrupts arriving at any point
SpecSys == Init /\ [][SysNext]_vars

ConsumerNext ==
    \/ Push
    \/ MainTestRing
    \/ ReadTest
    \/ ReadSlot
    \/ ReadAdvance
    \/ MainHandle
    \/ MainTestTick

\* the receive ring of uart_command_logger with the RX interrupt running to
\* completion between any two steps of the loop that reads it
SpecConsumer == Init /\ [][ConsumerNext]_vars

RenderNext == StoreNext \/ List

\* the task list and its EEPROM image as in SpecStore, listed at any time
SpecRender == Init /\ [][RenderNext]_vars

-----------------------------------------------------------------------------
(* The running system: interrupts without end, a loop that keeps iterating *)

\* the add_log calls of an earlier session: ten commands, then SAVE
EarlierAdds ==
    <<<<(<<65>>), 0, 5>>, <<(<<66>>), 25, 5>>, <<(<<65>>), 10, 1>>,
      <<(<<65>>), 0, 5>>, <<(<<66>>), 25, 5>>, <<(<<65>>), 10, 1>>,
      <<(<<65>>), 0, 5>>, <<(<<66>>), 25, 5>>, <<(<<65>>), 10, 1>>,
      <<(<<65>>), 0, 5>>>>

RECURSIVE AddAll(_, _, _)
\* the heap and log_head after add_log was called with each of args in turn
AddAll(h, lh, args) ==
    IF args = <<>>
    THEN [heap |-> h, log_head |-> lh]
    ELSE LET r == AddLog(h, lh, Malloc(h), args[1][1], args[1][2], args[1][3])
         IN  AddAll(r.heap, r.log_head, Tail(args))

\* the EEPROM that session left behind: its list, written from address 0
\* (lines 109-114), the records after it erased
SessionImage ==
    LET s == AddAll(<<>>, NULL, EarlierAdds)
        ch == ChainFrom(s.heap, s.log_head, Len(EarlierAdds))
    IN  [x \in EeAddrs |->
            IF x \div SizeofTaskNode < Len(ch)
            THEN s.heap[ch[(x \div SizeofTaskNode) + 1]]
            ELSE ErasedNode]

\* power-on with the EEPROM of the earlier session
LiveInit ==
    /\ RingInit
    /\ SysInit
    /\ log_head = NULL
    /\ heap = <<>>
    /\ ee_address = 0
    /\ eeprom = SessionImage
    /\ meta = <<>>
    /\ nextUid = 1
    /\ lastExec = <<>>
    /\ execLog = <<>>
    /\ saved = [at |-> 0, q |-> <<>>]
    /\ allocFailed = FALSE
    /\ cnt = [add |-> 0, tick |-> 0, save |-> 0, load |-> 0, reset |-> 0]

\* the command lines sent: "LOG A\n", "SAVE\n", "LOAD\n"; the entries with
\* a delay are those LOAD reads
LiveLines ==
    {<<76, 79, 71, 32, 65, 10>>,
     <<83, 65, 86, 69, 10>>,
     <<76, 79, 65, 68, 10>>}

RxIntLive == RxLine(LiveLines)

\* a timer interrupt, any number of them; the interrupt counts are not kept
TimerIntLive ==
    /\ TIMER1_COMPA_vect
    /\ UNCHANGED <<pc, c, cmd_buf, idx, led, wire, nLines, nInts, nClears,
                   sinceObs, sinceClear>>
    /\ UNCHANGED <<tx, op>>
    /\ UNCHANGED ringVars
    /\ UNCHANGED queueVars

\* main, line 226: tick = 0
MainClearTickLive ==
    /\ pc = "L226"
    /\ tick' = 0
    /\ pc' = "L227"
    /\ UNCHANGED <<c, cmd_buf, idx, led, wire, nLines, nInts, nClears,
                   sinceObs, sinceClear>>
    /\ UNCHANGED <<tx, op>>
    /\ UNCHANGED ringVars
    /\ UNCHANGED queueVars

\* main, line 227: execute_tasks()
MainExecuteLive ==
    /\ pc = "L227"
    /\ execute_tasks
    /\ tx' = ExecOut
    /\ op' = "tick"
    /\ cnt' = cnt
    /\ pc' = "L213"
    /\ UNCHANGED <<tick, c, cmd_buf, idx, led, wire, nLines, nInts, nClears,
                   sinceObs, sinceClear>>
    /\ UNCHANGED ringVars

MainLive ==
    \/ MainTestRing
    \/ ReadTest
    \/ ReadSlot
    \/ ReadAdvance
    \/ MainHandle
    \/ MainTestTick
    \/ MainClearTickLive
    \/ MainExecuteLive

LiveNext == MainLive \/ RxIntLive \/ TimerIntLive

\* uart_command_logger running on: the loop always takes its next step (the
\* while (1) of line 212, uart_send finding the transmitter ready) and the
\* timer keeps raising its interrupt (timer_init, lines 165-171)
SpecLive ==
    /\ LiveInit
    /\ [][LiveNext]_vars
    /\ WF_vars(MainLive)
    /\ WF_vars(TimerIntLive)

-----------------------------------------------------------------------------
(* Properties of the receive ring *)

\* the bytes stored and not yet read, oldest first
Unread ==
    [i \in 1 .. ((head - tail) % BUFFER_SIZE) |->
        rx_buffer[(tail + i - 1) % BUFFER_SIZE]]

\* the slots holding them
UnreadSlots == {(tail + i - 1) % BUFFER_SIZE : i \in 1 .. ((head - tail) % BUFFER_SIZE)}

\* the number of bytes received, not dropped and not yet popped
Pending == Len(pushed) - nDropped - Len(popped)

\* a step of the RX interrupt
IsPush == Len(pushed') = Len(pushed) + 1

\* C1: while fewer than capacity-1 bytes have been pushed, the bytes popped
\* followed by the bytes still in the ring are exactly the bytes pushed, in
\* order (nothing lost, duplicated or reordered); the ring reports empty
\* exactly when every pushed byte has been popped, and reports full exactly
\* when capacity-1 bytes are pending.
RingFifoBelowCapacity ==
    Len(pushed) < BUFFER_SIZE - 1 =>
        /\ popped \o Unread = pushed
        /\ buffer_is_empty <=> (Len(popped) = Len(pushed))
        /\ buffer_is_full <=> (Len(pushed) - Len(popped) = BUFFER_SIZE - 1)

RingFifoWitness ==
    /\ Len(pushed) = BUFFER_SIZE - 2
    /\ Len(popped) >= 3
    /\ ~buffer_is_empty
    /\ op = "pop"
    /\ ret = popped[Len(popped)]

\* C2: a push into a full ring changes neither head nor tail nor any unread
\* slot, the ring stays full and the next pop still returns the oldest unread
\* byte; and no push at all changes a slot holding an unread byte.
OverflowPushDrops ==
    [][IsPush =>
          /\ \A i \in UnreadSlots : rx_buffer'[i] = rx_buffer[i]
          /\ buffer_is_full =>
                /\ head' = head
                /\ tail' = tail
                /\ Unread' = Unread
                /\ buffer_is_full'
                /\ ReadResult'.c = Unread[1]]_vars

OverflowPushWitness ==
    /\ op = "push"
    /\ nDropped > 0
    /\ buffer_is_full
    /\ Len(popped) > 0

\* C3: head and tail stay inside the buffer, the number of pending bytes is
\* the distance from tail to head and never exceeds capacity-1, the ring
\* reports empty exactly when nothing is pending and full exactly when
\* capacity-1 bytes are pending.
RingInvariant ==
    /\ head \in 0 .. BUFFER_SIZE - 1
    /\ tail \in 0 .. BUFFER_SIZE - 1
    /\ Pending = (head - tail) % BUFFER_SIZE
    /\ Pending <= BUFFER_SIZE - 1
    /\ buffer_is_empty <=> (Pending = 0)
    /\ buffer_is_full <=> (Pending = BUFFER_SIZE - 1)

RingWrapWitness ==
    /\ buffer_is_full
    /\ head < tail
    /\ head > 0
    /\ nDropped > 0

-----------------------------------------------------------------------------
(* Properties of the task list *)

Reverse(s) == [i \in 1 .. Len(s) |-> s[Len(s) + 1 - i]]

NoDup(s) == \A i, j \in 1 .. Len(s) : i # j => s[i] # s[j]

\* the triples of the list, front to back
ChainTriples == [i \in 1 .. Len(Chain) |-> Triple(heap[Chain[i]])]

\* the list reaches every allocated node
ChainWhole == Len(Chain) = Cardinality(DOMAIN heap)

IsTick == cnt'.tick = cnt.tick + 1

IsSave == cnt'.save = cnt.save + 1

IsLoad == cnt'.load = cnt.load + 1

\* C4: after any sequence of add_log and execute_tasks calls the list, and
\* the listing print_log sends, is in non-decreasing priority order, and
\* entries of equal priority stand in the order of their insertion.
StablePriorityOrder ==
    /\ ChainWhole
    /\ \A i, j \in 1 .. Len(Chain) :
          i < j =>
             /\ heap[Chain[i]].priority <= heap[Chain[j]].priority
             /\ heap[Chain[i]].priority = heap[Chain[j]].priority
                   => meta[Chain[i]].uid < meta[Chain[j]].uid
    /\ op = "list" =>
          /\ Len(tx) = Len(Chain)
          /\ \A i, j \in 1 .. Len(tx) : i < j => tx[i].priority <= tx[j].priority

StablePriorityWitness ==
    /\ op = "add"
    /\ cnt.tick > 0
    /\ Len(Chain) = 3
    /\ heap[Chain[1]].priority = 1
    /\ meta[Chain[1]].uid > meta[Chain[2]].uid
    /\ heap[Chain[2]].priority = 5
    /\ heap[Chain[3]].priority = 5
    /\ heap[Chain[2]].data # heap[Chain[3]].data

\* C5 as stated: an entry inserted with delay_ticks = N >= 1 is executed
\* during the N-th execute_tasks call after its insertion and is gone after it.
DelayRunsOnNthTick ==
    /\ \A i \in 1 .. Len(lastExec) :
          lastExec[i].d0 >= 1 => lastExec[i].age = lastExec[i].d0
    /\ \A a \in DOMAIN meta : meta[a].d0 >= 1 => meta[a].age < meta[a].d0

\* C5 amended: an entry inserted with delay_ticks = N is counted down by the
\* first N execute_tasks calls after its insertion (delay_ticks = N - k after
\* the k-th), is executed during call N+1 and at no other call, and is gone
\* from the list afterwards; no entry is executed twice.
DelayRunsOnTickAfterCountdown ==
    /\ \A i \in 1 .. Len(lastExec) : lastExec[i].age = lastExec[i].d0 + 1
    /\ \A a \in DOMAIN meta :
          /\ meta[a].age <= meta[a].d0
          /\ heap[a].delay_ticks = meta[a].d0 - meta[a].age
    /\ \A i \in 1 .. Len(lastExec) : \A a \in DOMAIN meta : meta[a].uid # lastExec[i].uid
    /\ NoDup(execLog)

DelayCountdownWitness ==
    /\ op = "tick"
    /\ cnt.tick = 3
    /\ Len(lastExec) = 1
    /\ lastExec[1].d0 = 2
    /\ lastExec[1].age = 3
    /\ log_head = NULL

\* the serial numbers of the entries that are due, front to back
DueUids ==
    LET due == SelectSeq(Chain, LAMBDA a : heap[a].delay_ticks = 0)
    IN  [i \in 1 .. Len(due) |-> meta[due[i]].uid]

DueData ==
    LET due == SelectSeq(Chain, LAMBDA a : heap[a].delay_ticks = 0)
    IN  [i \in 1 .. Len(due) |-> [kind |-> "task", data |-> heap[due[i]].data]]

\* C6: one execute_tasks call sends the notification of every entry whose
\* delay_ticks is 0 when the call starts, once each, of no other entry, in
\* list order; and over the whole run no entry is executed twice.
ExecutesDueOnceInOrder ==
    /\ [][IsTick =>
             /\ [i \in 1 .. Len(lastExec') |-> lastExec'[i].uid] = DueUids
             /\ tx' = DueData]_vars
    /\ [](NoDup(execLog))

ExecutesDueWitness ==
    /\ op = "tick"
    /\ Len(lastExec) >= 2
    /\ lastExec[1].data # lastExec[2].data
    /\ log_head # NULL

\* C7 as stated: a load into an empty list after a save of a list of exactly
\* MAX_LOGS entries yields the saved triples in reverse order.
SaveLoadRoundTrip ==
    [][(IsLoad /\ log_head = NULL /\ cnt.save > 0 /\ Len(saved.q) = MAX_LOGS
          /\ ~allocFailed')
       => ChainTriples' = Reverse(saved.q)]_vars

\* C8 as stated: every save writes entry i (from 0) at address
\* i * sizeof(TaskNode) and leaves the cursor at count * sizeof(TaskNode).
SaveLayoutFromZero ==
    [][IsSave =>
          /\ \A i \in 1 .. Len(Chain) :
                eeprom'[(i - 1) * SizeofTaskNode] = heap[Chain[i]]
          /\ ee_address' = Len(Chain) * SizeofTaskNode]_vars

\* the records load reads, as triples: addresses 0, 37, ..., 9 * 37
FirstRecords == [i \in 1 .. MAX_LOGS |-> Triple(eeprom[(i - 1) * SizeofTaskNode])]

\* C9: a load in which no malloc fails leaves the cursor at MAX_LOGS records,
\* and the list is then records 9, 8, ..., 0 of the EEPROM followed by the
\* previous list, untouched: MAX_LOGS entries longer, whatever was saved.
LoadPrependsTenRecords ==
    [][(IsLoad /\ ~allocFailed') =>
          /\ ee_address' = MAX_LOGS * SizeofTaskNode
          /\ eeprom' = eeprom
          /\ Len(Chain') = Len(Chain) + MAX_LOGS
          /\ ChainTriples' = Reverse(FirstRecords) \o ChainTriples
          /\ SubSeq(Chain', MAX_LOGS + 1, Len(Chain')) = Chain
          /\ \A a \in DOMAIN heap : heap'[a] = heap[a]]_vars

LoadPrependsWitness ==
    /\ op = "load"
    /\ ~allocFailed
    /\ cnt.save = 1
    /\ Len(Chain) = MAX_LOGS + 2
    /\ ChainTriples[MAX_LOGS - 2] = Triple(ErasedNode)
    /\ ChainTriples[MAX_LOGS - 1] = ChainTriples[MAX_LOGS + 2]
    /\ ChainTriples[MAX_LOGS] = ChainTriples[MAX_LOGS + 1]
    /\ ChainTriples[MAX_LOGS - 1] # ChainTriples[MAX_LOGS]
    /\ ee_address = MAX_LOGS * SizeofTaskNode

-----------------------------------------------------------------------------
(* Properties of the tick flag *)

\* C10 as stated: timer interrupts that occurred since the loop last tested
\* the flag make the next test find it set, hence one execute_tasks call per
\* test-to-test window with an interrupt; and calls never outnumber interrupts.
TickPerTestWindow ==
    /\ [][(pc = "L225" /\ pc' # "L225" /\ sinceObs >= 1) => pc' = "L226"]_vars
    /\ [](cnt.tick <= nInts)

\* C10 amended: the windows are those between two clearings of the flag. The
\* flag is pending exactly when an interrupt occurred since the last clearing,
\* every clearing is followed by one execute_tasks call and happens only after
\* the flag was found set, and every such window holds at least one
\* interrupt: an interrupt between the test and the clearing is absorbed into
\* the call that test triggers. Calls never outnumber interrupts.
TickPerClearWindow ==
    /\ tick \in {0, 1}
    /\ (tick # 0) <=> (sinceClear >= 1)
    /\ pc = "L226" => tick # 0
    /\ cnt.tick + (IF pc = "L227" THEN 1 ELSE 0) = nClears
    /\ nClears + (IF sinceClear >= 1 THEN 1 ELSE 0) <= nInts
    /\ cnt.tick <= nInts

TickAbsorbedWitness ==
    /\ pc = "L227"
    /\ nInts = 2
    /\ nClears = 1
    /\ sinceObs = 1
    /\ sinceClear = 0
    /\ tick = 0

-----------------------------------------------------------------------------
(* Properties of the running system *)

\* the serial numbers an entry can get in one behaviour of SpecLive
LiveUids == 1 .. (MAX_LOGS * (MaxLines + 1))

\* entry u is in the list
Queued(u) == \E i \in 1 .. Len(Chain) : meta[Chain[i]].uid = u

\* entry u has been executed
Executed(u) == \E i \in 1 .. Len(execLog) : execLog[i] = u

\* C11: with timer interrupts that keep occurring and a loop that keeps
\* iterating, whatever LOG, SAVE and LOAD commands came, a list that
\* holds entries is eventually empty again; and at any time every entry that
\* add_log or load_logs_from_eeprom ever put into the list is either in the
\* list or has been executed, never both and never neither. So every entry
\* inserted is eventually executed and removed, and none leaves the list
\* without being executed.
EveryEntryEventuallyRuns ==
    /\ (log_head # NULL) ~> (log_head = NULL)
    /\ [](\A u \in LiveUids :
             /\ u < nextUid => (Queued(u) # Executed(u))
             /\ u >= nextUid => (~Queued(u) /\ ~Executed(u)))

EveryEntryRunsWitness ==
    /\ op = "tick"
    /\ cnt.load = 1
    /\ nextUid = MAX_LOGS + 1
    /\ Len(execLog) = MAX_LOGS
    /\ log_head = NULL

-----------------------------------------------------------------------------
(* Properties of allocation failure *)

IsAdd == cnt'.add = cnt.add + 1

\* the number of TaskNodes malloc can still hand out
FreeNodes == Cardinality(Addrs \ DOMAIN heap)

\* C12: an add_log call whose malloc fails leaves the list, every node, the
\* EEPROM and its cursor as they were and sends nothing; a load whose malloc
\* fails at record i (i mallocs succeeded before) leaves the list as records
\* i-1, ..., 0 followed by the previous list, untouched, with the cursor
\* after record i-1.
AllocFailureIsSilent ==
    [][/\ (IsAdd /\ FreeNodes = 0) =>
             /\ allocFailed'
             /\ log_head' = log_head
             /\ heap' = heap
             /\ Chain' = Chain
             /\ ee_address' = ee_address
             /\ eeprom' = eeprom
             /\ nextUid' = nextUid
             /\ tx' = <<>>
       /\ (IsLoad /\ FreeNodes < MAX_LOGS) =>
             /\ allocFailed'
             /\ Len(Chain') = Len(Chain) + FreeNodes
             /\ ChainTriples' = Reverse(SubSeq(FirstRecords, 1, FreeNodes)) \o ChainTriples
             /\ SubSeq(Chain', FreeNodes + 1, Len(Chain')) = Chain
             /\ \A a \in DOMAIN heap : heap'[a] = heap[a]
             /\ ee_address' = FreeNodes * SizeofTaskNode
             /\ eeprom' = eeprom]_vars

AllocFailureWitness ==
    /\ op = "add"
    /\ allocFailed
    /\ cnt.add = 1
    /\ cnt.load = 2
    /\ Len(Chain) = MaxNodes
    /\ ee_address = (MaxNodes - MAX_LOGS) * SizeofTaskNode
    /\ nextUid = MaxNodes + 1

-----------------------------------------------------------------------------
(* Properties of the list across saves and loads *)

\* C13 as stated: after any sequence of add_log, execute_tasks,
\* save_logs_to_eeprom and load_logs_from_eeprom calls the list from log_head
\* is in non-decreasing priority order, entries of equal priority standing in
\* the order in which they were put into the list.
SortedAfterSaveAndLoad ==
    \A i, j \in 1 .. Len(Chain) :
        i < j =>
           /\ heap[Chain[i]].priority <= heap[Chain[j]].priority
           /\ heap[Chain[i]].priority = heap[Chain[j]].priority
                 => meta[Chain[i]].uid < meta[Chain[j]].uid

-----------------------------------------------------------------------------
(* Properties of the ring read step by step *)

\* a step that completes a pop of a non-empty ring
IsPop == Len(popped') = Len(popped) + 1

\* C14: with the RX interrupt running between any two steps of buffer_read
\* (the empty test, the slot read, the tail update), the unread bytes of the
\* ring behave as a queue: a push into a ring that is not full appends its
\* byte and changes no slot holding an unread byte, a push into a full ring
\* changes nothing, a pop returns and removes the oldest unread byte, and no
\* other step changes the unread bytes. So every byte stored is returned by
\* exactly one later pop, in arrival order, also across the wrap-around of the
\* indices; and the byte buffer_read has read but not yet released is still
\* the oldest unread byte.
InterruptSafeRing ==
    /\ [][/\ IsPush =>
                /\ Unread' = (IF buffer_is_full
                              THEN Unread
                              ELSE Append(Unread, pushed'[Len(pushed')]))
                /\ \A i \in UnreadSlots : rx_buffer'[i] = rx_buffer[i]
                /\ popped' = popped
                /\ tail' = tail
          /\ IsPop =>
                /\ Unread # <<>>
                /\ popped' = Append(popped, Unread[1])
                /\ ret' = Unread[1]
                /\ Unread' = Tail(Unread)
                /\ pushed' = pushed
          /\ (~IsPush /\ ~IsPop) => (Unread' = Unread /\ popped' = popped)]_vars
    /\ [](pc \in {"L29", "L30"} => ~buffer_is_empty)
    /\ [](pc = "L30" => c = Unread[1])
    /\ [](Len(popped) + Len(Unread) + nDropped = Len(pushed))

InterruptSafeWitness ==
    /\ pc = "L30"
    /\ op = "push"
    /\ head < tail
    /\ Len(pushed) = BUFFER_SIZE + 1
    /\ nDropped = 0
    /\ Len(popped) >= 2
    /\ c = Unread[1]

-----------------------------------------------------------------------------
(* Properties of the sharing between the interrupt handlers and the loop *)

\* a step of the timer interrupt
IsTimer == nInts' = nInts + 1

\* a step of the main loop
IsMain == pc' # pc

\* C15: a step of the RX interrupt changes at most head and the one slot at
\* the old head; a step of the timer interrupt sets tick to 1 and changes
\* neither the ring nor its indices; no interrupt step changes tail, the
\* list, its nodes, the EEPROM, ee_address, the command buffer or the LED.
\* A step of the main loop leaves head and every slot unchanged and changes
\* tick only by clearing it to 0.
SingleWriterOwnership ==
    [][/\ IsPush =>
             /\ \A i \in 0 .. BUFFER_SIZE - 1 : i # head => rx_buffer'[i] = rx_buffer[i]
             /\ tick' = tick
             /\ ~IsMain
       /\ IsTimer =>
             /\ tick' = 1
             /\ rx_buffer' = rx_buffer
             /\ head' = head
             /\ ~IsMain
       /\ (IsPush \/ IsTimer) =>
             /\ tail' = tail
             /\ log_head' = log_head
             /\ heap' = heap
             /\ eeprom' = eeprom
             /\ ee_address' = ee_address
             /\ cmd_buf' = cmd_buf
             /\ idx' = idx
             /\ led' = led
       /\ IsMain =>
             /\ head' = head
             /\ rx_buffer' = rx_buffer
             /\ tick' = tick \/ tick' = 0
             /\ ~IsPush
             /\ ~IsTimer]_vars

SingleWriterWitness ==
    /\ pc = "L227"
    /\ tick = 1
    /\ nInts = MaxTimerInts
    /\ nClears = 1
    /\ log_head # NULL
    /\ head = Len(pushed)
    /\ tail = Len(popped)
    /\ tail > 0

-----------------------------------------------------------------------------
(* Properties of one execute_tasks call *)

\* the entries that are not due, front to back
KeptChain == SelectSeq(Chain, LAMBDA a : heap[a].delay_ticks > 0)

\* C16: one execute_tasks call leaves in the list exactly the entries whose
\* delay_ticks was above 0, in their previous relative order, each with
\* delay_ticks one less and with its payload and priority unchanged; the
\* entries whose delay_ticks was 0 are the ones executed and freed; and
\* delay_ticks stays within 0 .. 65535 at all times.
TickFrameCondition ==
    /\ [][IsTick =>
             /\ Chain' = KeptChain
             /\ DOMAIN heap' = {KeptChain[i] : i \in 1 .. Len(KeptChain)}
             /\ \A a \in DOMAIN heap' :
                   /\ heap'[a].delay_ticks = heap[a].delay_ticks - 1
                   /\ heap'[a].data = heap[a].data
                   /\ heap'[a].priority = heap[a].priority
             /\ Len(lastExec') + Len(KeptChain) = Len(Chain)
             /\ [i \in 1 .. Len(lastExec') |-> lastExec'[i].uid] = DueUids]_vars
    /\ [](\A a \in DOMAIN heap : heap[a].delay_ticks \in 0 .. 65535)

TickFrameWitness ==
    /\ op = "tick"
    /\ Len(lastExec) = 1
    /\ lastExec[1].d0 = 0
    /\ Len(Chain) = 2
    /\ heap[Chain[1]].priority = 1
    /\ heap[Chain[1]].delay_ticks = 0
    /\ meta[Chain[1]].d0 = 1
    /\ heap[Chain[2]].delay_ticks = 1
    /\ meta[Chain[2]].d0 = 2
    /\ meta[Chain[2]].uid > lastExec[1].uid

-----------------------------------------------------------------------------
(* Properties of the nodes *)

IsReset == cnt'.reset = cnt.reset + 1

\* the allocated nodes that a step frees
Freed == DOMAIN heap \ DOMAIN heap'

\* C17: at all times the allocated nodes are exactly the nodes reached from
\* log_head, each once, the walk ending at a NULL link; log_head and every
\* link are NULL or the address of an allocated node, so no walk of add_log,
\* execute_tasks, print_log, save or load follows a link into a freed node;
\* a step frees a node only if it is an execute_tasks call that executes
\* that node, and no node is executed, hence freed, twice.
NodeOwnership ==
    /\ [](/\ log_head \in DOMAIN heap \cup {NULL}
          /\ \A a \in DOMAIN heap : heap[a].next \in DOMAIN heap \cup {NULL}
          /\ {Chain[i] : i \in 1 .. Len(Chain)} = DOMAIN heap
          /\ NoDup(Chain)
          /\ Len(Chain) > 0 => heap[Chain[Len(Chain)]].next = NULL
          /\ NoDup(execLog))
    /\ [][(Freed # {} /\ ~IsReset) =>
             /\ IsTick
             /\ {meta[a].uid : a \in Freed}
                   = {lastExec'[i].uid : i \in 1 .. Len(lastExec')}
             /\ Cardinality(Freed) = Len(lastExec')]_vars
    /\ [][IsTick => Cardinality(Freed) = Len(lastExec')]_vars

NodeOwnershipWitness ==
    /\ op = "add"
    /\ Len(execLog) = 1
    /\ Len(Chain) = 2
    /\ 1 \in DOMAIN meta
    /\ meta[1].uid = 3
    /\ cnt.tick = 1

-----------------------------------------------------------------------------
(* Properties of the result of a pop *)

\* C18 as stated: buffer_read / uart_read on a ring that is not empty returns
\* the byte at tail and advances tail by one modulo BUFFER_SIZE; on an empty
\* ring it returns the value -1 and leaves head, tail and the buffer
\* unchanged; and whatever byte is the oldest, the value returned for it
\* differs from the value returned for an empty ring.
PopResultDistinct ==
    [][op' = "pop" =>
          IF buffer_is_empty
          THEN /\ ret' = ToChar(-1)
               /\ UNCHANGED <<head, tail, rx_buffer>>
          ELSE /\ ret' = rx_buffer[tail]
               /\ tail' = (tail + 1) % BUFFER_SIZE
               /\ UNCHANGED <<head, rx_buffer>>
               /\ ret' # ToChar(-1)]_vars

-----------------------------------------------------------------------------
(* Properties of the listing *)

\* C19 as stated: print_log sends one line per entry of the list, front to
\* back, numbered 1, 2, ..., n, each with the priority and the payload of
\* its entry and ended by its newline, and changes neither the list, its
\* nodes, the EEPROM nor ee_address; a second call right after the first
\* sends the same lines.
RenderReadOnlyOrdered ==
    [][op' = "list" =>
          /\ Len(tx') = Len(Chain)
          /\ \A i \in 1 .. Len(Chain) :
                /\ tx'[i].count = i
                /\ tx'[i].priority = heap[Chain[i]].priority
                /\ tx'[i].data = heap[Chain[i]].data
                /\ tx'[i].nl
                /\ ~tx'[i].beyond
          /\ UNCHANGED <<log_head, heap, ee_address, eeprom>>
          /\ op = "list" => tx' = tx]_vars

-----------------------------------------------------------------------------
(* Properties of the tick flag in the running system *)

\* C20: with a loop that keeps iterating, a timer interrupt is never lost
\* outright: whenever the flag is set, whether the interrupt came while the
\* loop was elsewhere, between its test (line 225) and its clearing (line
\* 226) of the flag, or during an execute_tasks call, the loop later clears
\* the flag and stands at the call of execute_tasks (line 227), and every
\* time it stands there it makes the call.
TickNeverLost ==
    /\ (tick # 0) ~> (pc = "L227" /\ tick = 0)
    /\ (pc = "L227") ~> (pc = "L213" /\ op = "tick")

TickNeverLostWitness ==
    /\ pc = "L227"
    /\ tick = 1
    /\ op = "tick"
    /\ log_head # NULL

=============================================================================
